---- MODULE Spec2Model ----
(***************************************************************************)
(* Model of cmsplugin_zinnia/cms_plugins.py: the render operations of the  *)
(* seven Zinnia plugins for django-cms.                                    *)
(*                                                                         *)
(* The blog database (entries, the entry/category, entry/author and        *)
(* tag/entry relations, the category tree, the search index) and the       *)
(* plugin instance are the state; a render reads them and writes the       *)
(* template context.  A queryset is modelled by the sequence of rows its   *)
(* evaluation yields: a filter across a many-to-many relation yields one   *)
(* row per matching related row, distinct() removes the repeated rows.     *)
(***************************************************************************)
EXTENDS Integers, Sequences, FiniteSets

\* ---------------------------------------------------------------- bounds
NumEntries == 2      \* entries in the blog, named 1..NumEntries
MaxLimit == 2        \* largest number_of_entries of a plugin
MaxRows == 3         \* rows in the relation tables of the blog
MaxSelected == 3     \* longest entry list of a selected-entries plugin

Entries == 1..NumEntries
Categories == {"c1", "c2"}
Authors == {"a1"}
Tags == {"t1", "t2"}
Words == {"w1"}
Templates == {"custom.html"}
Placeholders == {"content"}
CurrentDate == [year |-> 2026, month |-> 11]

\* ------------------------------------------------------- python values
PyNone == [type |-> "NoneType"]
PyInt(n) == [type |-> "int", value |-> n]
PyStr(s) == [type |-> "str", value |-> s]

\* truth value of a python object: None, 0 and '' are false
Truthy(v) ==
    CASE v.type = "NoneType" -> FALSE
      [] v.type = "int" -> v.value # 0
      [] v.type = "str" -> v.value # ""

\* str(v): the text of a python object
Str(v) ==
    CASE v.type = "NoneType" -> PyStr("None")
      [] v.type = "str" -> v

\* a or b
Or(a, b) == IF Truthy(a) THEN a ELSE b

VARIABLES
    published,         \* entries the published manager yields
    entry_categories,  \* rows <<entry, category>>
    entry_authors,     \* rows <<entry, author>>
    tagged_items,      \* rows <<entry, tag>>
    search_index,      \* rows <<entry, word>>: the entry's text holds the word
    parent,            \* category tree: parent[c] is a category or "" (root)
    instance,          \* the plugin instance handed to render
    context            \* the template context

store == <<published, entry_categories, entry_authors, tagged_items,
           search_index, parent>>
vars == <<published, entry_categories, entry_authors, tagged_items,
          search_index, parent, instance, context>>
\* ------------------------------------------------------------ querysets
Range(s) == {s[i] : i \in 1..Len(s)}

Min(a, b) == IF a < b THEN a ELSE b

\* Entry.published.all(): the published entries in the manager's order
\* (entry 1 first)
\* Entry.objects.all() in its place: drafts included
EntryAll == [i \in 1..NumEntries |-> i]

EntryPublishedAll ==
    LET IsPublished(e) == e \in published
    IN  SelectSeq([i \in 1..NumEntries |-> i], IsPublished)

\* qs.filter(<relation>__in=values): the join yields one row per related row
\* whose value is among the values
RECURSIVE FilterIn(_, _, _)
FilterIn(qs, relation, values) ==
    IF qs = <<>> THEN <<>>
    ELSE LET e == Head(qs)
             n == Cardinality({v \in values : <<e, v>> \in relation})
         IN  [i \in 1..n |-> e] \o FilterIn(Tail(qs), relation, values)

\* qs.filter(pk__in=ids)
FilterPkIn(qs, ids) ==
    LET Keep(e) == e \in ids
    IN  SelectSeq(qs, Keep)

\* qs.distinct(): each row once, at its first place
RECURSIVE Distinct(_)
Distinct(qs) ==
    IF qs = <<>> THEN <<>>
    ELSE LET front == Distinct(SubSeq(qs, 1, Len(qs) - 1))
             last == qs[Len(qs)]
         IN  IF last \in Range(front) THEN front ELSE Append(front, last)

\* qs[:n] for n > 0
Slice(qs, n) == SubSeq(qs, 1, Min(n, Len(qs)))

\* c.get_descendants(): the categories below c in the tree, c excluded
RECURSIVE Ancestors(_)
Ancestors(c) ==
    IF parent[c] = "" THEN {} ELSE {parent[c]} \cup Ancestors(parent[c])

get_descendants(c) == {d \in Categories : c \in Ancestors(d)}

\* itertools.chain(cats, *[c.get_descendants() for c in cats]), as the set
\* of values the __in lookup receives
\* the selected categories left out of the chain
Chain_descendantsOnly(cats) == UNION {get_descendants(c) : c \in cats}

Chain(cats) == cats \cup UNION {get_descendants(c) : c \in cats}

\* TaggedItem.objects.get_union_by_model(qs, tags): the rows of qs whose
\* entry carries any of the tags; none() when no tag or no object matches
\* get_intersection_by_model in its place: the entry carries all the tags
get_intersection_by_model(qs, tags) ==
    LET object_ids == {e \in Entries : \A t \in tags : <<e, t>> \in tagged_items}
    IN  IF tags = {} \/ object_ids = {} THEN <<>>
        ELSE FilterPkIn(qs, object_ids)

get_union_by_model(qs, tags) ==
    LET object_ids == {e \in Entries : \E t \in tags : <<e, t>> \in tagged_items}
    IN  IF tags = {} \/ object_ids = {} THEN <<>>
        ELSE FilterPkIn(qs, object_ids)

\* Entry.published.search(pattern): the published entries whose text holds
\* the pattern
EntryPublishedSearch(pattern) ==
    LET Matches(e) == <<e, pattern>> \in search_index
    IN  SelectSeq(EntryPublishedAll, Matches)

\* ------------------------------------------- CMSLatestEntriesPlugin.render
LatestCats(inst) ==
    IF inst.subcategories THEN Chain(inst.categories) ELSE inst.categories

LatestByCategories(inst, entries) ==
    IF Cardinality(inst.categories) # 0
    THEN FilterIn(entries, entry_categories, LatestCats(inst))
    ELSE entries

LatestByAuthors(inst, entries) ==
    IF Cardinality(inst.authors) # 0
    THEN FilterIn(entries, entry_authors, inst.authors)
    ELSE entries

\* the tag filter without its `if instance.tags.count()`
LatestByTags_unguarded(inst, entries) == get_union_by_model(entries, inst.tags)

LatestByTags(inst, entries) ==
    IF Cardinality(inst.tags) # 0
    THEN get_union_by_model(entries, inst.tags)
    ELSE entries

\* the value of `entries` before line 85
LatestJoined(inst) ==
    LatestByTags(inst,
        LatestByAuthors(inst,
            LatestByCategories(inst, EntryPublishedAll)))

\* the value of `entries` after line 85
LatestFiltered(inst) == Distinct(LatestJoined(inst))

\* the slice without its `if instance.number_of_entries`
Truncate_unguarded(inst, entries) ==
    IF inst.number_of_entries.type = "int"
    THEN Slice(entries, inst.number_of_entries.value)
    ELSE entries

Truncate(inst, entries) ==
    IF Truthy(inst.number_of_entries)
    THEN Slice(entries, inst.number_of_entries.value)
    ELSE entries

\* the slice taken before distinct()
LatestEntries_truncateFirst(inst) == Distinct(Truncate(inst, LatestJoined(inst)))

LatestEntries(inst) == Truncate(inst, LatestFiltered(inst))

\* context.update(d)
Update(ctx, d) ==
    [k \in DOMAIN ctx \cup DOMAIN d |-> IF k \in DOMAIN d THEN d[k] ELSE ctx[k]]

RenderLatest ==
    /\ instance.plugin_type = "CMSLatestEntriesPlugin"
    /\ \E placeholder \in Placeholders :
          context' = Update(context, [entries |-> LatestEntries(instance),
                                      object |-> instance,
                                      placeholder |-> placeholder])
    /\ UNCHANGED <<store, instance>>

\* ----------------------------------------- CMSSelectedEntriesPlugin.render
\* Entry.published in its place: the drafts of the list dropped
SelectedEntries_published(inst) == FilterPkIn(inst.entries, published)

\* instance.entries.all()
SelectedEntries(inst) == inst.entries

RenderSelected ==
    /\ instance.plugin_type = "CMSSelectedEntriesPlugin"
    /\ \E placeholder \in Placeholders :
          context' = Update(context, [entries |-> SelectedEntries(instance),
                                      object |-> instance,
                                      placeholder |-> placeholder])
    /\ UNCHANGED <<store, instance>>

\* ------------------------------------------- CMSRandomEntriesPlugin.render
RandomTemplate(inst) ==
    Or(Str(inst.template_to_render), PyStr("zinnia/tags/random_entries.html"))

\* the template name written back to the instance
RenderRandom_normalising ==
    /\ instance.plugin_type = "CMSRandomEntriesPlugin"
    /\ \E placeholder \in Placeholders :
          context' = Update(context, [object |-> instance,
                                      placeholder |-> placeholder,
                                      template_to_render |-> RandomTemplate(instance)])
    /\ instance' = [instance EXCEPT !.template_to_render = RandomTemplate(instance)]
    /\ UNCHANGED store

RenderRandom ==
    /\ instance.plugin_type = "CMSRandomEntriesPlugin"
    /\ \E placeholder \in Placeholders :
          context' = Update(context, [object |-> instance,
                                      placeholder |-> placeholder,
                                      template_to_render |-> RandomTemplate(instance)])
    /\ UNCHANGED <<store, instance>>

\* -------------------------------------------- CMSQueryEntriesPlugin.render
QueryEntries(inst) == Truncate(inst, EntryPublishedSearch(inst.query))

RenderQuery ==
    /\ instance.plugin_type = "CMSQueryEntriesPlugin"
    /\ \E placeholder \in Placeholders :
          context' = Update(context, [entries |-> QueryEntries(instance),
                                      object |-> instance,
                                      placeholder |-> placeholder])
    /\ UNCHANGED <<store, instance>>

\* ----------------------------------------- CMSCalendarEntriesPlugin.render
\* the current year and month filled in where the instance sets none
CalendarContext_defaulted(inst, placeholder) ==
    [object |-> IF inst.year = PyNone /\ inst.month = PyNone
                THEN [inst EXCEPT !.year = PyInt(CurrentDate.year),
                                  !.month = PyInt(CurrentDate.month)]
                ELSE inst,
     placeholder |-> placeholder]

CalendarContext(inst, placeholder) ==
    [object |-> inst, placeholder |-> placeholder]

RenderCalendar ==
    /\ instance.plugin_type = "CMSCalendarEntriesPlugin"
    /\ \E placeholder \in Placeholders :
          context' = Update(context, CalendarContext(instance, placeholder))
    /\ UNCHANGED <<store, instance>>

\* ------------------------------------------------- CMSSearchPlugin.render
RenderSearch ==
    /\ instance.plugin_type = "CMSSearchPlugin"
    /\ \E placeholder \in Placeholders :
          context' = Update(context, [object |-> instance,
                                      placeholder |-> placeholder])
    /\ UNCHANGED <<store, instance>>

\* -------------------------------------------------- CMSToolsPlugin.render
RenderTools ==
    /\ instance.plugin_type = "CMSToolsPlugin"
    /\ \E placeholder \in Placeholders :
          context' = Update(context, [object |-> instance,
                                      placeholder |-> placeholder])
    /\ UNCHANGED <<store, instance>>

\* ------------------------------------------------------------ the blog
\* the subsets of S with at most k elements
RECURSIVE SubsetsUpTo(_, _)
SubsetsUpTo(S, k) ==
    IF k = 0 \/ S = {} THEN {{}}
    ELSE LET x == CHOOSE y \in S : TRUE
         IN  SubsetsUpTo(S \ {x}, k)
               \cup {T \cup {x} : T \in SubsetsUpTo(S \ {x}, k - 1)}

\* every row a blog can hold: a draft entry, a tree edge, a relation row
AllRows ==
    {<<"draft", e, "">> : e \in Entries}
      \cup {<<"parent", "c2", "c1">>}
      \cup {<<"category", e, c>> : e \in Entries, c \in Categories}
      \cup {<<"author", e, a>> : e \in Entries, a \in Authors}
      \cup {<<"tag", e, t>> : e \in Entries, t \in Tags}
      \cup {<<"word", e, w>> : e \in Entries, w \in Words}

Table(rows, name) == {<<r[2], r[3]>> : r \in {x \in rows : x[1] = name}}

Limits == {PyNone} \cup {PyInt(n) : n \in 0..MaxLimit}

RECURSIVE SeqsUpTo(_, _)
SeqsUpTo(S, n) ==
    IF n = 0 THEN {<<>>}
    ELSE SeqsUpTo(S, n - 1) \cup [1..n -> S]

LatestInstances ==
    [plugin_type : {"CMSLatestEntriesPlugin"},
     categories : SUBSET Categories, subcategories : BOOLEAN,
     authors : SUBSET Authors, tags : SUBSET Tags,
     number_of_entries : Limits]

SelectedInstances ==
    [plugin_type : {"CMSSelectedEntriesPlugin"},
     entries : SeqsUpTo(Entries, MaxSelected)]

RandomInstances ==
    [plugin_type : {"CMSRandomEntriesPlugin"},
     number_of_entries : Limits,
     template_to_render : {PyNone, PyStr("")} \cup {PyStr(t) : t \in Templates}]

QueryInstances ==
    [plugin_type : {"CMSQueryEntriesPlugin"},
     query : Words, number_of_entries : Limits]

CalendarInstances ==
    [plugin_type : {"CMSCalendarEntriesPlugin"},
     year : {PyNone, PyInt(CurrentDate.year), PyInt(CurrentDate.year - 1)},
     month : {PyNone, PyInt(CurrentDate.month), PyInt(CurrentDate.month - 1)}]

PlainInstances ==
    [plugin_type : {"CMSSearchPlugin", "CMSToolsPlugin"}]

Instances ==
    LatestInstances \cup SelectedInstances \cup RandomInstances
      \cup QueryInstances \cup CalendarInstances \cup PlainInstances

\* the tables a plugin's render reads (drafts are kept for every plugin);
\* rows of the other tables cannot bear on its render and are left out
TablesRead(plugin_type) ==
    CASE plugin_type = "CMSLatestEntriesPlugin" ->
             {"draft", "parent", "category", "author", "tag"}
      [] plugin_type = "CMSQueryEntriesPlugin" -> {"draft", "word"}
      [] OTHER -> {"draft"}

RowsRead(plugin_type) == {r \in AllRows : r[1] \in TablesRead(plugin_type)}

\* the blogs of at most MaxRows rows, by the plugin that renders them
LatestBlogs == SubsetsUpTo(RowsRead("CMSLatestEntriesPlugin"), MaxRows)
QueryBlogs == SubsetsUpTo(RowsRead("CMSQueryEntriesPlugin"), MaxRows)
OtherBlogs == SubsetsUpTo(RowsRead("CMSPlugin"), MaxRows)

Blogs(plugin_type) ==
    CASE plugin_type = "CMSLatestEntriesPlugin" -> LatestBlogs
      [] plugin_type = "CMSQueryEntriesPlugin" -> QueryBlogs
      [] OTHER -> OtherBlogs

Init ==
    /\ instance \in Instances
    /\ \E rows \in Blogs(instance.plugin_type) :
          /\ published = Entries \ {r[2] : r \in {x \in rows : x[1] = "draft"}}
          /\ parent = [c \in Categories |->
                          IF <<"parent", c, "c1">> \in rows THEN "c1" ELSE ""]
          /\ entry_categories = Table(rows, "category")
          /\ entry_authors = Table(rows, "author")
          /\ tagged_items = Table(rows, "tag")
          /\ search_index = Table(rows, "word")
    /\ context = [k \in {} |-> PyNone]

Next ==
    \/ RenderLatest
    \/ RenderSelected
    \/ RenderRandom
    \/ RenderQuery
    \/ RenderCalendar
    \/ RenderSearch
    \/ RenderTools

Spec == Init /\ [][Next]_vars

\* =================================================================
\* Properties.  What the claims speak of is stated here from the
\* relations of the blog, apart from the operators of the renders.
\* =================================================================
Latest == "CMSLatestEntriesPlugin"

\* the context holds the outcome of a render of the plugin type
Rendered(plugin_type) ==
    /\ "object" \in DOMAIN context
    /\ context.object.plugin_type = plugin_type

Count(e, seq) == Cardinality({i \in 1..Len(seq) : seq[i] = e})

\* the entries of S in the order of the published manager
InOrder(S) ==
    LET Member(e) == e \in S
    IN  SelectSeq([i \in 1..NumEntries |-> i], Member)

\* the first lim rows of seq when lim is a positive number, seq otherwise
Prefix(seq, lim) ==
    IF lim.type = "int" /\ lim.value > 0
    THEN [i \in 1..Min(lim.value, Len(seq)) |-> seq[i]]
    ELSE seq

Children(c) == {d \in Categories : parent[d] = c}

RECURSIVE Below(_)
Below(c) == Children(c) \cup UNION {Below(d) : d \in Children(c)}

\* the selected categories, with everything below them when the flag is set
EffectiveCategories(inst) ==
    IF inst.subcategories
    THEN inst.categories \cup UNION {Below(c) : c \in inst.categories}
    ELSE inst.categories

InCategories(cats, e) == \E c \in cats : <<e, c>> \in entry_categories

HasAuthor(inst, e) == \E a \in inst.authors : <<e, a>> \in entry_authors

HasTag(inst, e) == \E t \in inst.tags : <<e, t>> \in tagged_items

AllCriteria == {"categories", "authors", "tags"}

\* the published entries that pass every criterion of inst that is in
\* `criteria` and not empty
Matching(inst, criteria) ==
    LET cats == EffectiveCategories(inst)
        byCategory == "categories" \in criteria /\ inst.categories # {}
        byAuthor == "authors" \in criteria /\ inst.authors # {}
        byTag == "tags" \in criteria /\ inst.tags # {}
    IN  {e \in published :
            /\ byCategory => InCategories(cats, e)
            /\ byAuthor => HasAuthor(inst, e)
            /\ byTag => HasTag(inst, e)}

\* C1: in the latest-entries render an empty category, author or tag set
\* removes no entry: the entries rendered are those the other criteria
\* select (cut to the same limit), and with the three sets empty they are
\* the whole published set in its order.
EmptySetIsNoFilter ==
    Rendered(Latest) =>
        LET lim == instance.number_of_entries
            filtered == LatestFiltered(instance)
            Others(c) == InOrder(Matching(instance, AllCriteria \ {c}))
        IN  /\ instance.categories = {} =>
                  /\ context.entries = Prefix(Others("categories"), lim)
                  /\ filtered = Others("categories")
            /\ instance.authors = {} =>
                  /\ context.entries = Prefix(Others("authors"), lim)
                  /\ filtered = Others("authors")
            /\ instance.tags = {} =>
                  /\ context.entries = Prefix(Others("tags"), lim)
                  /\ filtered = Others("tags")
            /\ (instance.categories = {} /\ instance.authors = {}
                  /\ instance.tags = {}) =>
                  /\ filtered = InOrder(published)
                  /\ context.entries = Prefix(InOrder(published), lim)

\* no category or author selected, a tag selected: an entry in no category
\* and with no author is rendered, another published one is left out
EmptySetIsNoFilterWitness ==
    /\ Rendered(Latest)
    /\ instance.categories = {} /\ instance.authors = {} /\ instance.tags # {}
    /\ entry_categories = {} /\ entry_authors = {}
    /\ published = Entries
    /\ context.entries = <<2>>

\* C2: with a non-empty tag set a published entry that passes the category
\* and author criteria is among the filtered entries (the entries of line
\* 85, before the slice of line 87) exactly when it carries at least one of
\* the tags, and it is there once however many of the tags it carries; the
\* rendered entries hold only such entries, each once, and all of them when
\* no limit is set.
TagsAreUnion ==
    (Rendered(Latest) /\ instance.tags # {}) =>
        LET filtered == LatestFiltered(instance)
        IN  /\ \A e \in Matching(instance, {"categories", "authors"}) :
                  Count(e, filtered) = IF HasTag(instance, e) THEN 1 ELSE 0
            /\ \A e \in Range(context.entries) :
                  HasTag(instance, e) /\ Count(e, context.entries) = 1
            /\ ~Truthy(instance.number_of_entries) => context.entries = filtered

\* two tags selected: an entry carrying both and an entry carrying one of
\* them are both rendered, each once
TagsAreUnionWitness ==
    /\ Rendered(Latest)
    /\ instance.tags = Tags
    /\ tagged_items = {<<1, "t1">>, <<1, "t2">>, <<2, "t1">>}
    /\ context.entries = <<1, 2>>

\* C3: the latest and the query render put in the context the first L of
\* the entries they selected, in the same order, when the limit L is
\* positive, and all of them, in the same order, when it is 0 or unset.
LimitIsPrefix ==
    /\ Rendered(Latest) =>
          context.entries =
              Prefix(LatestFiltered(instance), instance.number_of_entries)
    /\ Rendered("CMSQueryEntriesPlugin") =>
          context.entries =
              Prefix(EntryPublishedSearch(instance.query),
                     instance.number_of_entries)

\* a query render with limit 1 and two entries found
LimitIsPrefixWitness ==
    /\ Rendered("CMSQueryEntriesPlugin")
    /\ instance.number_of_entries = PyInt(1)
    /\ Len(EntryPublishedSearch(instance.query)) = 2
    /\ context.entries = <<1>>

SubcategoriesGrow ==
    (Rendered(Latest) /\ instance.categories # {} /\ instance.subcategories) =>
        LET off == [instance EXCEPT !.subcategories = FALSE]
            without == Range(LatestFiltered(off))
        IN  /\ LatestCats(instance) = EffectiveCategories(instance)
            /\ LatestCats(off) = instance.categories
            /\ LatestCats(off) \subseteq LatestCats(instance)
            /\ without \subseteq Range(LatestFiltered(instance))
            /\ without = Matching(off, AllCriteria)
            /\ ~Truthy(instance.number_of_entries) =>
                  Range(LatestEntries(off)) \subseteq Range(context.entries)

\* c1 selected, c2 below it: an entry of c2 alone is rendered only with
\* the flag
SubcategoriesGrowWitness ==
    /\ Rendered(Latest)
    /\ instance.categories = {"c1"} /\ instance.subcategories
    /\ parent["c2"] = "c1"
    /\ entry_categories = {<<1, "c2">>, <<2, "c1">>}
    /\ context.entries = <<1, 2>>
    /\ LatestFiltered([instance EXCEPT !.subcategories = FALSE]) = <<2>>

\* C6 as stated: with neither year nor month set, what the calendar render
\* hands over names the current year and month.
CalendarDefaultsInRender ==
    (Rendered("CMSCalendarEntriesPlugin")
        /\ instance.year = PyNone /\ instance.month = PyNone) =>
        /\ context.object.year = PyInt(CurrentDate.year)
        /\ context.object.month = PyInt(CurrentDate.month)

\* C6, amended: the calendar render computes no default: it hands over the
\* instance as it is, year and month unset where they were unset, and
\* nothing else but the placeholder.
CalendarPassesRaw ==
    Rendered("CMSCalendarEntriesPlugin") =>
        /\ context.object = instance
        /\ DOMAIN context = {"object", "placeholder"}
        /\ (instance.year = PyNone) <=> (context.object.year = PyNone)
        /\ (instance.month = PyNone) <=> (context.object.month = PyNone)

\* a calendar render with neither year nor month set
CalendarPassesRawWitness ==
    /\ Rendered("CMSCalendarEntriesPlugin")
    /\ instance.year = PyNone /\ instance.month = PyNone
    /\ context.object.year = PyNone /\ context.object.month = PyNone

\* C7: a render leaves the plugin instance and the blog (entries,
\* categories, authors, tags, search index) as they were; only the context
\* changes.
RenderIsReadOnly == [][UNCHANGED <<store, instance>>]_vars

\* a random-entries render has filled the default template name in the
\* context, and the instance still holds the empty name
RenderIsReadOnlyWitness ==
    /\ Rendered("CMSRandomEntriesPlugin")
    /\ instance.template_to_render = PyStr("")
    /\ context.template_to_render = PyStr("zinnia/tags/random_entries.html")
    /\ published # Entries

\* C8: before the slice, the latest-entries render holds exactly the
\* published entries that are in an effective category if categories are
\* selected, and have a selected author if authors are selected, and carry
\* a selected tag if tags are selected; no draft is ever rendered.
CriteriaAreConjoined ==
    Rendered(Latest) =>
        LET matching == Matching(instance, AllCriteria)
        IN  /\ Range(LatestFiltered(instance)) = matching
            /\ Range(context.entries) \subseteq matching
            /\ Range(context.entries) \subseteq published
            /\ ~Truthy(instance.number_of_entries) =>
                  Range(context.entries) = matching

\* the three criteria set: the entry meeting all three is rendered, a
\* published entry meeting none is not
CriteriaAreConjoinedWitness ==
    /\ Rendered(Latest)
    /\ instance.categories # {} /\ instance.authors # {} /\ instance.tags # {}
    /\ published = Entries
    /\ context.entries = <<2>>

\* C9: with a limit L > 0 and D entries matching the filters, the
\* latest-entries render holds min(L, D) entries, no two the same: the
\* rows repeated by the joins take none of the L places.
DistinctBeforeLimit ==
    (Rendered(Latest) /\ instance.number_of_entries.type = "int"
        /\ instance.number_of_entries.value > 0) =>
        LET L == instance.number_of_entries.value
            D == Cardinality(Matching(instance, AllCriteria))
        IN  /\ Len(context.entries) = Min(L, D)
            /\ \A e \in Range(context.entries) : Count(e, context.entries) = 1

\* limit 2, entry 1 in both selected categories, entry 2 in one: the join
\* yields entry 1 twice, and both entries are rendered
DistinctBeforeLimitWitness ==
    /\ Rendered(Latest)
    /\ instance.number_of_entries = PyInt(2)
    /\ instance.categories = Categories
    /\ entry_categories = {<<1, "c1">>, <<1, "c2">>, <<2, "c1">>}
    /\ LatestJoined(instance) = <<1, 1, 2>>
    /\ context.entries = <<1, 2>>

\* C10: the random-entries render selects no entry and names, under
\* template_to_render, the configured template when one is configured and
\* zinnia/tags/random_entries.html when none is (unset or empty); the name
\* is never empty.
RandomTemplateDefault ==
    Rendered("CMSRandomEntriesPlugin") =>
        LET configured == instance.template_to_render
        IN  /\ "entries" \notin DOMAIN context
            /\ context.template_to_render # PyStr("")
            /\ context.template_to_render =
                  IF configured \in {PyNone, PyStr("")}
                  THEN PyStr("zinnia/tags/random_entries.html")
                  ELSE configured

====
